---- MODULE Spec2Model ----
(***************************************************************************)
(* useDestructuring: per-element / per-field setState functions derived    *)
(* from one composite React state and its whole-container setter, with a   *)
(* cache (useRef) and a memo boundary (useMemo) that keep the derived      *)
(* functions reference-stable.  Two implementations live in the            *)
(* repository: src/unnamed/part_000 and src/use-destructuring.ts.          *)
(***************************************************************************)
EXTENDS Integers, Sequences, FiniteSets, TLC

(***************************************************************************)
(* 32-bit words.  A JavaScript int32/uint32 is kept as <<hi, lo>>, two     *)
(* 16-bit halves, so that no intermediate product leaves the range of the  *)
(* model checker's integers.                                               *)
(***************************************************************************)
RECURSIVE XorBits(_, _, _)
XorBits(a, b, n) ==
    IF n = 0 THEN 0
    ELSE (((a % 2) + (b % 2)) % 2) + 2 * XorBits(a \div 2, b \div 2, n - 1)

\* a ^ b on 32-bit words
Xor32(a, b) == << XorBits(a[1], b[1], 16), XorBits(a[2], b[2], 16) >>

\* low 16 bits of the product of two 16-bit numbers
MulLo16(x, y) == ((x % 256) * y + (((x \div 256) * y) % 256) * 256) % 65536

\* Math.imul(a, b): the low 32 bits of the product
imul(a, b) ==
    LET p0 == (a[2] % 256) * b[2]
        p1 == (a[2] \div 256) * b[2]
        t  == p0 + (p1 % 256) * 256
        lo == t % 65536
        c  == (t \div 65536) + (p1 \div 256)
        hi == (c + MulLo16(a[1], b[2]) + MulLo16(a[2], b[1])) % 65536
    IN  << hi, lo >>

\* w >>> 16 and w >>> 13
Shr16(w) == << 0, w[1] >>
Shr13(w) == << w[1] \div 8192, (w[2] \div 8192) + (w[1] % 8192) * 8 >>

\* a character code as a 32-bit word
CharWord(ch) == << 0, ch >>

\* the loop of hashString over the characters of str, from position i
RECURSIVE hashLoop(_, _, _)
hashLoop(str, i, h) ==
    IF i > Len(str) THEN h
    ELSE hashLoop(str, i + 1,
           << imul(Xor32(h[1], CharWord(str[i])), << 40503, 31153 >>),
              imul(Xor32(h[2], CharWord(str[i])), << 24373, 25749 >>) >>)

\* a digest that depends on the length of the string only
hashString_lengthOnly(str) == [hi |-> 0, lo |-> << 0, Len(str) >>]

\* cyrb53 with seed 0: [hi |-> 2097151 & h2, lo |-> h1 >>> 0], the number
\* 4294967296 * hi + lo, lo as a 32-bit word
hashString(str) ==
    LET h0  == hashLoop(str, 1, << << 57005, 48879 >>, << 16838, 52823 >> >>)
        a1  == imul(Xor32(h0[1], Shr16(h0[1])), << 34283, 51819 >>)
        h1  == Xor32(a1, imul(Xor32(h0[2], Shr13(h0[2])), << 49842, 44597 >>))
        a2  == imul(Xor32(h0[2], Shr16(h0[2])), << 34283, 51819 >>)
        h2  == Xor32(a2, imul(Xor32(h1, Shr13(h1)), << 49842, 44597 >>))
    IN  [hi |-> (h2[1] % 32) * 65536 + h2[2], lo |-> h1]

\* a 32-bit word read as a signed int32
ToSigned(w) == IF w[1] >= 32768 THEN (w[1] - 65536) * 65536 + w[2]
               ELSE w[1] * 65536 + w[2]

(***************************************************************************)
(* JavaScript values of the model.                                         *)
(*   element / field values: pairs << type, payload >>, so that no two     *)
(*     values of different types are the same: Str(s) the string s,        *)
(*     Undefined, Num(n) a number, Fn(name) a built-in function and        *)
(*     Proto(name) a built-in prototype object; Hole is no value, it marks *)
(*     an empty slot of a sparse array;                                    *)
(*   field identifiers: sequences of character codes;                      *)
(*   a composite: [kind, ref, items, props] with kind "array" (items, a    *)
(*     sequence), "object" (props, a sequence of <<key, value>> in         *)
(*     insertion order), "null" or "number"; ref is the object's identity; *)
(*     TypeError stands for a transform that threw instead of returning;   *)
(*   a closure: [fn, id, setter, index, propertyKey]; two closures of the  *)
(*     same fn and the same position or key are the same object exactly    *)
(*     when their id is the same.                                          *)
(***************************************************************************)
Str(s)      == << "string", s >>
Num(n)      == << "number", ToString(n) >>
Fn(name)    == << "function", name >>
Proto(name) == << "object", name >>
Undefined   == << "undefined", "" >>
Hole        == << "empty slot", "" >>

Array(r, items)  == [kind |-> "array",  ref |-> r, items |-> items, props |-> << >>]
Object(r, props) == [kind |-> "object", ref |-> r, items |-> << >>, props |-> props]
Null             == [kind |-> "null",   ref |-> 0, items |-> << >>, props |-> << >>]
Number           == [kind |-> "number", ref |-> 0, items |-> << >>, props |-> << >>]
TypeError        == [kind |-> "TypeError", ref |-> 0, items |-> << >>, props |-> << >>]

\* Array.isArray(state)
isArray(state) == state.kind = "array"

\* isObjectOrArray without the comparison with null
isObjectOrArray_typeof(obj) == obj.kind \in {"array", "object", "null"}

\* obj !== null && typeof obj === 'object'
isObjectOrArray(obj) == obj.kind \in {"array", "object"}

\* Object.keys(object), in insertion order
keysOf(object) == [i \in 1..Len(object.props) |-> object.props[i][1]]

KeySet(object) == {object.props[i][1] : i \in 1..Len(object.props)}

\* position of key in a sequence of <<key, value>> pairs, 0 when absent
RECURSIVE IndexOfKey(_, _, _)
IndexOfKey(pairs, key, i) ==
    IF i > Len(pairs) THEN 0
    ELSE IF pairs[i][1] = key THEN i
    ELSE IndexOfKey(pairs, key, i + 1)

\* The order of an object's own keys: the array indices ("0", "1", ... up to
\* "4294967294", written without a leading zero) come first in ascending
\* numeric order, every other key follows in insertion order.
MaxIndexKey == << 52, 50, 57, 52, 57, 54, 55, 50, 57, 52 >>

RECURSIVE DigitsLess(_, _, _)
DigitsLess(a, b, i) ==
    IF i > Len(a) THEN FALSE
    ELSE IF a[i] # b[i] THEN a[i] < b[i]
    ELSE DigitsLess(a, b, i + 1)

IndexKeyLess(a, b) ==
    IF Len(a) # Len(b) THEN Len(a) < Len(b) ELSE DigitsLess(a, b, 1)

IsIndexKey(key) ==
    /\ Len(key) >= 1
    /\ Len(key) <= Len(MaxIndexKey)
    /\ \A i \in 1..Len(key) : key[i] >= 48 /\ key[i] <= 57
    /\ key[1] = 48 => Len(key) = 1
    /\ ~IndexKeyLess(MaxIndexKey, key)

\* String(index) and, for an array index of at most nine digits, its number
RECURSIVE IndexKeyOf(_)
IndexKeyOf(n) ==
    IF n < 10 THEN << 48 + n >> ELSE IndexKeyOf(n \div 10) \o << 48 + (n % 10) >>

RECURSIVE IndexOf(_, _, _)
IndexOf(key, i, acc) ==
    IF i > Len(key) THEN acc ELSE IndexOf(key, i + 1, 10 * acc + (key[i] - 48))

\* "length"
KeyLength == << 108, 101, 110, 103, 116, 104 >>

\* The members a record inherits from Object.prototype: << name, value >>;
\* under __proto__, what the accessor of that name returns for a record.
ObjectPrototype ==
    {
      << << 99, 111, 110, 115, 116, 114, 117, 99, 116, 111, 114 >>,
         Fn("Object") >>,
      << << 104, 97, 115, 79, 119, 110, 80, 114, 111, 112, 101, 114, 116, 121 >>,
         Fn("Object.prototype.hasOwnProperty") >>,
      << << 105, 115, 80, 114, 111, 116, 111, 116, 121, 112, 101, 79, 102 >>,
         Fn("Object.prototype.isPrototypeOf") >>,
      << << 112, 114, 111, 112, 101, 114, 116, 121, 73, 115, 69, 110, 117, 109, 101, 114, 97, 98, 108, 101 >>,
         Fn("Object.prototype.propertyIsEnumerable") >>,
      << << 116, 111, 76, 111, 99, 97, 108, 101, 83, 116, 114, 105, 110, 103 >>,
         Fn("Object.prototype.toLocaleString") >>,
      << << 116, 111, 83, 116, 114, 105, 110, 103 >>,
         Fn("Object.prototype.toString") >>,
      << << 118, 97, 108, 117, 101, 79, 102 >>,
         Fn("Object.prototype.valueOf") >>,
      << << 95, 95, 100, 101, 102, 105, 110, 101, 71, 101, 116, 116, 101, 114, 95, 95 >>,
         Fn("Object.prototype.__defineGetter__") >>,
      << << 95, 95, 100, 101, 102, 105, 110, 101, 83, 101, 116, 116, 101, 114, 95, 95 >>,
         Fn("Object.prototype.__defineSetter__") >>,
      << << 95, 95, 108, 111, 111, 107, 117, 112, 71, 101, 116, 116, 101, 114, 95, 95 >>,
         Fn("Object.prototype.__lookupGetter__") >>,
      << << 95, 95, 108, 111, 111, 107, 117, 112, 83, 101, 116, 116, 101, 114, 95, 95 >>,
         Fn("Object.prototype.__lookupSetter__") >>,
      << << 95, 95, 112, 114, 111, 116, 111, 95, 95 >>,
         Proto("Object.prototype") >> }

\* The members an array inherits from Array.prototype (ECMAScript 2023, as
\* in node 20 and 22), and what the accessor __proto__ returns for an array.
ArrayPrototype ==
    {
      << << 99, 111, 110, 115, 116, 114, 117, 99, 116, 111, 114 >>,
         Fn("Array") >>,
      << << 97, 116 >>,
         Fn("Array.prototype.at") >>,
      << << 99, 111, 110, 99, 97, 116 >>,
         Fn("Array.prototype.concat") >>,
      << << 99, 111, 112, 121, 87, 105, 116, 104, 105, 110 >>,
         Fn("Array.prototype.copyWithin") >>,
      << << 102, 105, 108, 108 >>,
         Fn("Array.prototype.fill") >>,
      << << 102, 105, 110, 100 >>,
         Fn("Array.prototype.find") >>,
      << << 102, 105, 110, 100, 73, 110, 100, 101, 120 >>,
         Fn("Array.prototype.findIndex") >>,
      << << 102, 105, 110, 100, 76, 97, 115, 116 >>,
         Fn("Array.prototype.findLast") >>,
      << << 102, 105, 110, 100, 76, 97, 115, 116, 73, 110, 100, 101, 120 >>,
         Fn("Array.prototype.findLastIndex") >>,
      << << 108, 97, 115, 116, 73, 110, 100, 101, 120, 79, 102 >>,
         Fn("Array.prototype.lastIndexOf") >>,
      << << 112, 111, 112 >>,
         Fn("Array.prototype.pop") >>,
      << << 112, 117, 115, 104 >>,
         Fn("Array.prototype.push") >>,
      << << 114, 101, 118, 101, 114, 115, 101 >>,
         Fn("Array.prototype.reverse") >>,
      << << 115, 104, 105, 102, 116 >>,
         Fn("Array.prototype.shift") >>,
      << << 117, 110, 115, 104, 105, 102, 116 >>,
         Fn("Array.prototype.unshift") >>,
      << << 115, 108, 105, 99, 101 >>,
         Fn("Array.prototype.slice") >>,
      << << 115, 111, 114, 116 >>,
         Fn("Array.prototype.sort") >>,
      << << 115, 112, 108, 105, 99, 101 >>,
         Fn("Array.prototype.splice") >>,
      << << 105, 110, 99, 108, 117, 100, 101, 115 >>,
         Fn("Array.prototype.includes") >>,
      << << 105, 110, 100, 101, 120, 79, 102 >>,
         Fn("Array.prototype.indexOf") >>,
      << << 106, 111, 105, 110 >>,
         Fn("Array.prototype.join") >>,
      << << 107, 101, 121, 115 >>,
         Fn("Array.prototype.keys") >>,
      << << 101, 110, 116, 114, 105, 101, 115 >>,
         Fn("Array.prototype.entries") >>,
      << << 118, 97, 108, 117, 101, 115 >>,
         Fn("Array.prototype.values") >>,
      << << 102, 111, 114, 69, 97, 99, 104 >>,
         Fn("Array.prototype.forEach") >>,
      << << 102, 105, 108, 116, 101, 114 >>,
         Fn("Array.prototype.filter") >>,
      << << 102, 108, 97, 116 >>,
         Fn("Array.prototype.flat") >>,
      << << 102, 108, 97, 116, 77, 97, 112 >>,
         Fn("Array.prototype.flatMap") >>,
      << << 109, 97, 112 >>,
         Fn("Array.prototype.map") >>,
      << << 101, 118, 101, 114, 121 >>,
         Fn("Array.prototype.every") >>,
      << << 115, 111, 109, 101 >>,
         Fn("Array.prototype.some") >>,
      << << 114, 101, 100, 117, 99, 101 >>,
         Fn("Array.prototype.reduce") >>,
      << << 114, 101, 100, 117, 99, 101, 82, 105, 103, 104, 116 >>,
         Fn("Array.prototype.reduceRight") >>,
      << << 116, 111, 76, 111, 99, 97, 108, 101, 83, 116, 114, 105, 110, 103 >>,
         Fn("Array.prototype.toLocaleString") >>,
      << << 116, 111, 83, 116, 114, 105, 110, 103 >>,
         Fn("Array.prototype.toString") >>,
      << << 116, 111, 82, 101, 118, 101, 114, 115, 101, 100 >>,
         Fn("Array.prototype.toReversed") >>,
      << << 116, 111, 83, 111, 114, 116, 101, 100 >>,
         Fn("Array.prototype.toSorted") >>,
      << << 116, 111, 83, 112, 108, 105, 99, 101, 100 >>,
         Fn("Array.prototype.toSpliced") >>,
      << << 119, 105, 116, 104 >>,
         Fn("Array.prototype.with") >>,
      << << 95, 95, 112, 114, 111, 116, 111, 95, 95 >>,
         Proto("Array.prototype") >> }

\* the member of that name of a table of members, undefined when it has none
Member(table, key) ==
    IF \E m \in table : m[1] = key
    THEN (CHOOSE m \in table : m[1] = key)[2]
    ELSE Undefined

\* does array have an element of its own under key
HasElement(array, key) ==
    /\ IsIndexKey(key) /\ Len(key) <= 9
    /\ IndexOf(key, 1, 0) < Len(array.items)
    /\ array.items[IndexOf(key, 1, 0) + 1] # Hole

\* object[key], for a record or an array: an own property (for an array its
\* elements and length), else the member of that name inherited from the
\* prototype chain, else undefined
GetProp(object, key) ==
    IF isArray(object)
    THEN IF HasElement(object, key) THEN object.items[IndexOf(key, 1, 0) + 1]
         ELSE IF key = KeyLength THEN Num(Len(object.items))
         ELSE IF \E m \in ArrayPrototype : m[1] = key
              THEN Member(ArrayPrototype, key)
         ELSE Member(ObjectPrototype, key)
    ELSE LET i == IndexOfKey(object.props, key, 1)
         IN  IF i # 0 THEN object.props[i][2]
             ELSE Member(ObjectPrototype, key)

\* array[index], index counted from 0; a hole or a position past the end
\* reads as undefined; on a record it reads the property String(index)
GetItem(array, index) ==
    IF ~isArray(array) THEN GetProp(array, IndexKeyOf(index))
    ELSE IF index + 1 > Len(array.items) \/ array.items[index + 1] = Hole
    THEN Undefined
    ELSE array.items[index + 1]

\* the own enumerable properties that { ...object } copies, in key order: of
\* an array its elements under their indices, without the empty slots
RECURSIVE ArrayProps(_, _)
ArrayProps(items, i) ==
    IF i > Len(items) THEN << >>
    ELSE (IF items[i] = Hole THEN << >>
          ELSE << << IndexKeyOf(i - 1), items[i] >> >>)
         \o ArrayProps(items, i + 1)

OwnProps(object) ==
    IF isArray(object) THEN ArrayProps(object.items, 1) ELSE object.props

\* setStateAction instanceof Function ? setStateAction(oldValue) : setStateAction
\* An action is [fun |-> FALSE, value |-> v] or [fun |-> TRUE, value |-> name]
\* for the functions
\*    keep   : old => old
\*    toggle : old => old === "a" ? "b" : "a"
CallUpdater(name, oldValue) ==
    IF name = "keep" THEN oldValue
    ELSE IF oldValue = Str("a") THEN Str("b") ELSE Str("a")

evaluateSetStateAction(setStateAction, oldValue) ==
    IF setStateAction.fun THEN CallUpdater(setStateAction.value, oldValue)
    ELSE setStateAction.value

\* String.prototype.toUpperCase on one UTF-16 code unit (key.charAt(0)), as
\* Unicode 17.0 (the version of node 20 and 22) defines the case mapping of
\* the Basic Multilingual Plane: a sequence of one to three code units.  A
\* lone surrogate maps to itself.  An engine with older Unicode data leaves
\* the code units unchanged whose upper case a later version added.
\*   UpperRuns    : << lo, hi, step, delta >>, the code units lo, lo + step,
\*                  ..., hi map to themselves plus delta;
\*   UpperSpecial : << code unit, its upper case of several code units >>,
\*                  such as 223 (sharp s) |-> "SS".
UpperRuns ==
    {
      << 181, 181, 1, 743 >>, << 224, 246, 1, -32 >>, << 248, 254, 1, -32 >>,
      << 255, 255, 1, 121 >>, << 257, 303, 2, -1 >>, << 305, 305, 1, -232 >>,
      << 307, 311, 2, -1 >>, << 314, 328, 2, -1 >>, << 331, 375, 2, -1 >>,
      << 378, 382, 2, -1 >>, << 383, 383, 1, -300 >>, << 384, 384, 1, 195 >>,
      << 387, 389, 2, -1 >>, << 392, 392, 1, -1 >>, << 396, 396, 1, -1 >>,
      << 402, 402, 1, -1 >>, << 405, 405, 1, 97 >>, << 409, 409, 1, -1 >>,
      << 410, 410, 1, 163 >>, << 411, 411, 1, 42561 >>,
      << 414, 414, 1, 130 >>, << 417, 421, 2, -1 >>, << 424, 424, 1, -1 >>,
      << 429, 429, 1, -1 >>, << 432, 432, 1, -1 >>, << 436, 438, 2, -1 >>,
      << 441, 441, 1, -1 >>, << 445, 445, 1, -1 >>, << 447, 447, 1, 56 >>,
      << 453, 453, 1, -1 >>, << 454, 454, 1, -2 >>, << 456, 456, 1, -1 >>,
      << 457, 457, 1, -2 >>, << 459, 459, 1, -1 >>, << 460, 460, 1, -2 >>,
      << 462, 476, 2, -1 >>, << 477, 477, 1, -79 >>, << 479, 495, 2, -1 >>,
      << 498, 498, 1, -1 >>, << 499, 499, 1, -2 >>, << 501, 501, 1, -1 >>,
      << 505, 543, 2, -1 >>, << 547, 563, 2, -1 >>, << 572, 572, 1, -1 >>,
      << 575, 576, 1, 10815 >>, << 578, 578, 1, -1 >>, << 583, 591, 2, -1 >>,
      << 592, 592, 1, 10783 >>, << 593, 593, 1, 10780 >>,
      << 594, 594, 1, 10782 >>, << 595, 595, 1, -210 >>,
      << 596, 596, 1, -206 >>, << 598, 599, 1, -205 >>,
      << 601, 601, 1, -202 >>, << 603, 603, 1, -203 >>,
      << 604, 604, 1, 42319 >>, << 608, 608, 1, -205 >>,
      << 609, 609, 1, 42315 >>, << 611, 611, 1, -207 >>,
      << 612, 612, 1, 42343 >>, << 613, 613, 1, 42280 >>,
      << 614, 614, 1, 42308 >>, << 616, 616, 1, -209 >>,
      << 617, 617, 1, -211 >>, << 618, 618, 1, 42308 >>,
      << 619, 619, 1, 10743 >>, << 620, 620, 1, 42305 >>,
      << 623, 623, 1, -211 >>, << 625, 625, 1, 10749 >>,
      << 626, 626, 1, -213 >>, << 629, 629, 1, -214 >>,
      << 637, 637, 1, 10727 >>, << 640, 640, 1, -218 >>,
      << 642, 642, 1, 42307 >>, << 643, 643, 1, -218 >>,
      << 647, 647, 1, 42282 >>, << 648, 648, 1, -218 >>,
      << 649, 649, 1, -69 >>, << 650, 651, 1, -217 >>,
      << 652, 652, 1, -71 >>, << 658, 658, 1, -219 >>,
      << 669, 669, 1, 42261 >>, << 670, 670, 1, 42258 >>,
      << 837, 837, 1, 84 >>, << 881, 883, 2, -1 >>, << 887, 887, 1, -1 >>,
      << 891, 893, 1, 130 >>, << 940, 940, 1, -38 >>, << 941, 943, 1, -37 >>,
      << 945, 961, 1, -32 >>, << 962, 962, 1, -31 >>, << 963, 971, 1, -32 >>,
      << 972, 972, 1, -64 >>, << 973, 974, 1, -63 >>, << 976, 976, 1, -62 >>,
      << 977, 977, 1, -57 >>, << 981, 981, 1, -47 >>, << 982, 982, 1, -54 >>,
      << 983, 983, 1, -8 >>, << 985, 1007, 2, -1 >>,
      << 1008, 1008, 1, -86 >>, << 1009, 1009, 1, -80 >>,
      << 1010, 1010, 1, 7 >>, << 1011, 1011, 1, -116 >>,
      << 1013, 1013, 1, -96 >>, << 1016, 1016, 1, -1 >>,
      << 1019, 1019, 1, -1 >>, << 1072, 1103, 1, -32 >>,
      << 1104, 1119, 1, -80 >>, << 1121, 1153, 2, -1 >>,
      << 1163, 1215, 2, -1 >>, << 1218, 1230, 2, -1 >>,
      << 1231, 1231, 1, -15 >>, << 1233, 1327, 2, -1 >>,
      << 1377, 1414, 1, -48 >>, << 4304, 4346, 1, 3008 >>,
      << 4349, 4351, 1, 3008 >>, << 5112, 5117, 1, -8 >>,
      << 7296, 7296, 1, -6254 >>, << 7297, 7297, 1, -6253 >>,
      << 7298, 7298, 1, -6244 >>, << 7299, 7300, 1, -6242 >>,
      << 7301, 7301, 1, -6243 >>, << 7302, 7302, 1, -6236 >>,
      << 7303, 7303, 1, -6181 >>, << 7304, 7304, 1, 35266 >>,
      << 7306, 7306, 1, -1 >>, << 7545, 7545, 1, 35332 >>,
      << 7549, 7549, 1, 3814 >>, << 7566, 7566, 1, 35384 >>,
      << 7681, 7829, 2, -1 >>, << 7835, 7835, 1, -59 >>,
      << 7841, 7935, 2, -1 >>, << 7936, 7943, 1, 8 >>,
      << 7952, 7957, 1, 8 >>, << 7968, 7975, 1, 8 >>, << 7984, 7991, 1, 8 >>,
      << 8000, 8005, 1, 8 >>, << 8017, 8023, 2, 8 >>, << 8032, 8039, 1, 8 >>,
      << 8048, 8049, 1, 74 >>, << 8050, 8053, 1, 86 >>,
      << 8054, 8055, 1, 100 >>, << 8056, 8057, 1, 128 >>,
      << 8058, 8059, 1, 112 >>, << 8060, 8061, 1, 126 >>,
      << 8112, 8113, 1, 8 >>, << 8126, 8126, 1, -7205 >>,
      << 8144, 8145, 1, 8 >>, << 8160, 8161, 1, 8 >>, << 8165, 8165, 1, 7 >>,
      << 8526, 8526, 1, -28 >>, << 8560, 8575, 1, -16 >>,
      << 8580, 8580, 1, -1 >>, << 9424, 9449, 1, -26 >>,
      << 11312, 11359, 1, -48 >>, << 11361, 11361, 1, -1 >>,
      << 11365, 11365, 1, -10795 >>, << 11366, 11366, 1, -10792 >>,
      << 11368, 11372, 2, -1 >>, << 11379, 11379, 1, -1 >>,
      << 11382, 11382, 1, -1 >>, << 11393, 11491, 2, -1 >>,
      << 11500, 11502, 2, -1 >>, << 11507, 11507, 1, -1 >>,
      << 11520, 11557, 1, -7264 >>, << 11559, 11559, 1, -7264 >>,
      << 11565, 11565, 1, -7264 >>, << 42561, 42605, 2, -1 >>,
      << 42625, 42651, 2, -1 >>, << 42787, 42799, 2, -1 >>,
      << 42803, 42863, 2, -1 >>, << 42874, 42876, 2, -1 >>,
      << 42879, 42887, 2, -1 >>, << 42892, 42892, 1, -1 >>,
      << 42897, 42899, 2, -1 >>, << 42900, 42900, 1, 48 >>,
      << 42903, 42921, 2, -1 >>, << 42933, 42947, 2, -1 >>,
      << 42952, 42954, 2, -1 >>, << 42957, 42971, 2, -1 >>,
      << 42998, 42998, 1, -1 >>, << 43859, 43859, 1, -928 >>,
      << 43888, 43967, 1, -38864 >>, << 65345, 65370, 1, -32 >> }

UpperSpecial ==
    {
      << 223, << 83, 83 >> >>, << 329, << 700, 78 >> >>,
      << 496, << 74, 780 >> >>, << 912, << 921, 776, 769 >> >>,
      << 944, << 933, 776, 769 >> >>, << 1415, << 1333, 1362 >> >>,
      << 7830, << 72, 817 >> >>, << 7831, << 84, 776 >> >>,
      << 7832, << 87, 778 >> >>, << 7833, << 89, 778 >> >>,
      << 7834, << 65, 702 >> >>, << 8016, << 933, 787 >> >>,
      << 8018, << 933, 787, 768 >> >>, << 8020, << 933, 787, 769 >> >>,
      << 8022, << 933, 787, 834 >> >>, << 8064, << 7944, 921 >> >>,
      << 8065, << 7945, 921 >> >>, << 8066, << 7946, 921 >> >>,
      << 8067, << 7947, 921 >> >>, << 8068, << 7948, 921 >> >>,
      << 8069, << 7949, 921 >> >>, << 8070, << 7950, 921 >> >>,
      << 8071, << 7951, 921 >> >>, << 8072, << 7944, 921 >> >>,
      << 8073, << 7945, 921 >> >>, << 8074, << 7946, 921 >> >>,
      << 8075, << 7947, 921 >> >>, << 8076, << 7948, 921 >> >>,
      << 8077, << 7949, 921 >> >>, << 8078, << 7950, 921 >> >>,
      << 8079, << 7951, 921 >> >>, << 8080, << 7976, 921 >> >>,
      << 8081, << 7977, 921 >> >>, << 8082, << 7978, 921 >> >>,
      << 8083, << 7979, 921 >> >>, << 8084, << 7980, 921 >> >>,
      << 8085, << 7981, 921 >> >>, << 8086, << 7982, 921 >> >>,
      << 8087, << 7983, 921 >> >>, << 8088, << 7976, 921 >> >>,
      << 8089, << 7977, 921 >> >>, << 8090, << 7978, 921 >> >>,
      << 8091, << 7979, 921 >> >>, << 8092, << 7980, 921 >> >>,
      << 8093, << 7981, 921 >> >>, << 8094, << 7982, 921 >> >>,
      << 8095, << 7983, 921 >> >>, << 8096, << 8040, 921 >> >>,
      << 8097, << 8041, 921 >> >>, << 8098, << 8042, 921 >> >>,
      << 8099, << 8043, 921 >> >>, << 8100, << 8044, 921 >> >>,
      << 8101, << 8045, 921 >> >>, << 8102, << 8046, 921 >> >>,
      << 8103, << 8047, 921 >> >>, << 8104, << 8040, 921 >> >>,
      << 8105, << 8041, 921 >> >>, << 8106, << 8042, 921 >> >>,
      << 8107, << 8043, 921 >> >>, << 8108, << 8044, 921 >> >>,
      << 8109, << 8045, 921 >> >>, << 8110, << 8046, 921 >> >>,
      << 8111, << 8047, 921 >> >>, << 8114, << 8122, 921 >> >>,
      << 8115, << 913, 921 >> >>, << 8116, << 902, 921 >> >>,
      << 8118, << 913, 834 >> >>, << 8119, << 913, 834, 921 >> >>,
      << 8124, << 913, 921 >> >>, << 8130, << 8138, 921 >> >>,
      << 8131, << 919, 921 >> >>, << 8132, << 905, 921 >> >>,
      << 8134, << 919, 834 >> >>, << 8135, << 919, 834, 921 >> >>,
      << 8140, << 919, 921 >> >>, << 8146, << 921, 776, 768 >> >>,
      << 8147, << 921, 776, 769 >> >>, << 8150, << 921, 834 >> >>,
      << 8151, << 921, 776, 834 >> >>, << 8162, << 933, 776, 768 >> >>,
      << 8163, << 933, 776, 769 >> >>, << 8164, << 929, 787 >> >>,
      << 8166, << 933, 834 >> >>, << 8167, << 933, 776, 834 >> >>,
      << 8178, << 8186, 921 >> >>, << 8179, << 937, 921 >> >>,
      << 8180, << 911, 921 >> >>, << 8182, << 937, 834 >> >>,
      << 8183, << 937, 834, 921 >> >>, << 8188, << 937, 921 >> >>,
      << 64256, << 70, 70 >> >>, << 64257, << 70, 73 >> >>,
      << 64258, << 70, 76 >> >>, << 64259, << 70, 70, 73 >> >>,
      << 64260, << 70, 70, 76 >> >>, << 64261, << 83, 84 >> >>,
      << 64262, << 83, 84 >> >>, << 64275, << 1348, 1350 >> >>,
      << 64276, << 1348, 1333 >> >>, << 64277, << 1348, 1339 >> >>,
      << 64278, << 1358, 1350 >> >>, << 64279, << 1348, 1341 >> >> }

InUpperRun(ch, run) ==
    ch >= run[1] /\ ch <= run[2] /\ (ch - run[1]) % run[3] = 0

UpperCode(ch) ==
    IF ch < 128 THEN IF ch >= 97 /\ ch <= 122 THEN << ch - 32 >> ELSE << ch >>
    ELSE IF \E s \in UpperSpecial : s[1] = ch
         THEN (CHOOSE s \in UpperSpecial : s[1] = ch)[2]
    ELSE IF \E run \in UpperRuns : InUpperRun(ch, run)
         THEN << ch + (CHOOSE run \in UpperRuns : InUpperRun(ch, run))[4] >>
    ELSE << ch >>

\* key.charAt(0).toUpperCase() + key.substring(1); the empty key throws
capitalizeThrows(key) == Len(key) = 0

capitalize(key) == UpperCode(key[1]) \o SubSeq(key, 2, Len(key))

\* `set${capitalize(key)}`
AccessorName(key) == << 115, 101, 116 >> \o capitalize(key)


(***************************************************************************)
(* Bounds and input universes.                                             *)
(***************************************************************************)
\* longest sequence handed to a derivation
MaxLen == 2
\* most whole-container updates queued before the host commits
MaxQueue == 2

Impls   == {"part_000", "use-destructuring"}
Setters == {"S1", "S2"}
Elems   == {Str("a"), Str("b")}
\* the field identifiers "x" and "y"
KeyX == << 120 >>
KeyY == << 121 >>
Keys == {KeyX, KeyY}

\* every enumeration of distinct field identifiers
KeySeqs ==
    {ks \in UNION {[1..n -> Keys] : n \in 0..Cardinality(Keys)} :
        \A i, j \in 1..Len(ks) : i # j => ks[i] # ks[j]}

\* the identifiers "", "X", sharp s (whose upper case is "SS"), "a", "b" and
\* "c", and every identifier of a call
KeyEmpty  == << >>
KeyUpperX == << 88 >>
KeySharpS == << 223 >>
KeyA == << 97 >>
KeyB == << 98 >>
KeyC == << 99 >>
AllKeys == Keys \cup {KeyEmpty, KeyUpperX, KeySharpS, KeyA, KeyB, KeyC}

\* every enumeration of distinct identifiers of a set of identifiers
Enumerations(keys) ==
    {ks \in UNION {[1..n -> keys] : n \in 0..Cardinality(keys)} :
        \A i, j \in 1..Len(ks) : i # j => ks[i] # ks[j]}

\* the digests of the identifiers, computed once
HashTable == {<< k, hashString(k) >> : k \in AllKeys}

hashStringOf(str) ==
    IF str \in AllKeys THEN (CHOOSE p \in HashTable : p[1] = str)[2]
    ELSE hashString(str)

\* a fold that multiplies the accumulator by 31 before each ^
RECURSIVE xorFold_ordered(_, _, _)
xorFold_ordered(strs, i, acc) ==
    IF i > Len(strs) THEN acc
    ELSE xorFold_ordered(strs, i + 1,
            Xor32(imul(acc, << 0, 31 >>), hashStringOf(strs[i]).lo))

\* str.map(s => hashString(s)).reduce((a, b) => a ^ b, 0): ^ works on the
\* int32 of its operands, which for 4294967296 * hi + lo is lo
RECURSIVE xorFold(_, _, _)
xorFold(strs, i, acc) ==
    IF i > Len(strs) THEN acc
    ELSE xorFold(strs, i + 1, Xor32(acc, hashStringOf(strs[i]).lo))

hashStrings(strs) == ToSigned(xorFold(strs, 1, << 0, 0 >>))

\* the enumerations a derivation can be given
ErrKeySeqs  == Enumerations({KeyX, KeyEmpty})
CaseKeySeqs == Enumerations({KeyX, KeyUpperX, KeySharpS})
HashKeySeqs == Enumerations({KeyA, KeyB, KeyC})
AllKeySeqs  == KeySeqs \cup ErrKeySeqs \cup CaseKeySeqs \cup HashKeySeqs

\* their fingerprints, computed once
Fingerprints == {<< ks, hashStrings(ks) >> : ks \in AllKeySeqs}

hashStringsOf(strs) ==
    IF strs \in AllKeySeqs THEN (CHOOSE p \in Fingerprints : p[1] = strs)[2]
    ELSE hashStrings(strs)


(***************************************************************************)
(* MutatorSynthesis: the closures and the transforms they hand to the      *)
(* whole-container setter.                                                 *)
(***************************************************************************)
\* The id of a closure created now for a position or key: the least number
\* that no closure still held for that position or key carries
NewId(live, fn, index, propertyKey) ==
    LET taken == {f.id : f \in {g \in live : /\ g.fn = fn
                                            /\ g.index = index
                                            /\ g.propertyKey = propertyKey}}
    IN  CHOOSE n \in 1..(Cardinality(taken) + 1) :
            /\ n \notin taken
            /\ \A k \in 1..(n - 1) : k \in taken

createArrayElementSetState(setArray, index, id) ==
    [fn |-> "setElement", id |-> id, setter |-> setArray,
     index |-> index, propertyKey |-> << >>]

createDeleteAction(setArray, index, id) ==
    [fn |-> "delete", id |-> id, setter |-> setArray,
     index |-> index, propertyKey |-> << >>]

createObjectPropertySetState(setObject, propertyKey, id) ==
    [fn |-> "setProperty", id |-> id, setter |-> setObject,
     index |-> 0, propertyKey |-> propertyKey]

\* [...array]: holes are copied as undefined
Spread(items) ==
    [i \in 1..Len(items) |-> IF items[i] = Hole THEN Undefined ELSE items[i]]

\* result[index] = newElement; writing past the end leaves holes between
AssignIndex(items, index, newElement) ==
    IF index + 1 <= Len(items) THEN [items EXCEPT ![index + 1] = newElement]
    ELSE [i \in 1..(index + 1) |->
            IF i <= Len(items) THEN items[i]
            ELSE IF i = index + 1 THEN newElement ELSE Hole]

\* replaceAtIndex of src/unnamed/part_000; r is the identity of the copy;
\* [...array] throws a TypeError when array is a record, which is not
\* iterable
replaceAtIndex(array, index, newElement, r) ==
    IF GetItem(array, index) = newElement THEN array
    ELSE IF ~isArray(array) THEN TypeError
    ELSE Array(r, AssignIndex(Spread(array.items), index, newElement))

\* replaceAtIndex of src/use-destructuring.ts
replaceAtIndex_ud(array, index, newValue, r) ==
    IF ~isArray(array) THEN TypeError
    ELSE Array(r, AssignIndex(Spread(array.items), index, newValue))

\* oldArray => replaceAtIndex(oldArray, index, evaluateSetStateAction(...))
elementTransform(im, index, setElement, oldArray, r) ==
    LET newElement == evaluateSetStateAction(setElement, GetItem(oldArray, index))
    IN  IF im = "part_000" THEN replaceAtIndex(oldArray, index, newElement, r)
        ELSE replaceAtIndex_ud(oldArray, index, newElement, r)

\* the indices j (from 1) that oldArray.filter((_, j) => j !== index) keeps:
\* filter never visits a hole
RECURSIVE FilterItems(_, _, _)
FilterItems(items, index, j) ==
    IF j > Len(items) THEN << >>
    ELSE IF j - 1 # index /\ items[j] # Hole
         THEN << items[j] >> \o FilterItems(items, index, j + 1)
         ELSE FilterItems(items, index, j + 1)

\* the filter comparing j counted from 1 with index
deleteTransform_offByOne(index, oldArray, r) ==
    IF ~isArray(oldArray) THEN TypeError
    ELSE Array(r, FilterItems(oldArray.items, index - 1, 1))

\* oldArray => oldArray.filter((_, j) => j !== index); a record has no
\* function filter, the call throws a TypeError
deleteTransform(index, oldArray, r) ==
    IF ~isArray(oldArray) THEN TypeError
    ELSE Array(r, FilterItems(oldArray.items, index, 1))

\* { ...oldObject, [propertyKey]: newProperty }: an own key keeps its place
\* and takes the new value; a new key goes where the key order puts it
SpreadWith(props, propertyKey, newProperty) ==
    LET i == IndexOfKey(props, propertyKey, 1)
        before ==
            IF IsIndexKey(propertyKey)
            THEN Cardinality({j \in 1..Len(props) :
                     IsIndexKey(props[j][1])
                         /\ IndexKeyLess(props[j][1], propertyKey)})
            ELSE Len(props)
    IN  IF i # 0 THEN [props EXCEPT ![i] = << propertyKey, newProperty >>]
        ELSE SubSeq(props, 1, before)
                 \o << << propertyKey, newProperty >> >>
                 \o SubSeq(props, before + 1, Len(props))

\* the transform of createObjectPropertySetState, src/unnamed/part_000
propertyTransform(propertyKey, setProperty, oldObject, r) ==
    LET oldProperty == GetProp(oldObject, propertyKey)
        newProperty == evaluateSetStateAction(setProperty, oldProperty)
    IN  IF oldProperty = newProperty THEN oldObject
        ELSE Object(r, SpreadWith(OwnProps(oldObject), propertyKey, newProperty))

\* the transform of createObjectPropertySetState, src/use-destructuring.ts
propertyTransform_ud(propertyKey, setProperty, oldObject, r) ==
    Object(r, SpreadWith(OwnProps(oldObject), propertyKey,
              evaluateSetStateAction(setProperty, GetProp(oldObject, propertyKey))))

\* oldPhoneNumbers => [...oldPhoneNumbers, newElement], the updater the
\* README's Add button hands to the whole-container setter itself
addTransform(newElement, oldArray, r) ==
    IF ~isArray(oldArray) THEN TypeError
    ELSE Array(r, Spread(oldArray.items) \o << newElement >>)

\* The transform a derived function f hands to the whole-container setter
\* when called with action, applied to old, a record or an array whatever
\* f was made for; f may also be the host's own updater (fn "add"), which is
\* no closure of the library
Transform(im, f, action, old, r) ==
    IF f.fn = "setElement" THEN elementTransform(im, f.index, action, old, r)
    ELSE IF f.fn = "delete" THEN deleteTransform(f.index, old, r)
    ELSE IF f.fn = "add" THEN addTransform(action.value, old, r)
    ELSE IF im = "part_000" THEN propertyTransform(f.propertyKey, action, old, r)
    ELSE propertyTransform_ud(f.propertyKey, action, old, r)


(***************************************************************************)
(* The accessor caches (the useRef cell) and their reconciliation.         *)
(*   cache:  [kind |-> "array", slots, map] with slots a sequence of       *)
(*           <<setElement, delete>>, or [kind |-> "map", ...] with map a   *)
(*           function from field identifier to setProperty;                *)
(*   result: [kind |-> "array", triples, methods] with triples a sequence  *)
(*           of <<value, setElement, delete>>, or [kind |-> "object", ...] *)
(*           with methods a function from accessor name to setProperty.    *)
(* live is the set of closures something still holds.                      *)
(***************************************************************************)
ArrayCache(slots) == [kind |-> "array", slots |-> slots, map |-> << >>]
ObjectCache(map)  == [kind |-> "map",   slots |-> << >>, map |-> map]

isArrayCache(current)  == current.kind = "array"
isObjectCache(current) == current.kind = "map"

ArrayResult(triples)  == [kind |-> "array",  triples |-> triples, methods |-> << >>]
ObjectResult(methods) == [kind |-> "object", triples |-> << >>, methods |-> methods]
NoResult              == [kind |-> "none",   triples |-> << >>, methods |-> << >>]

\* narrowRef: ref.current is replaced when it is not of the wanted kind
narrowRef(current, wantArray, setIfNotNarrow) ==
    IF (wantArray /\ isArrayCache(current)) \/ (~wantArray /\ isObjectCache(current))
    THEN current
    ELSE setIfNotNarrow

\* limit without the slice
limit_keepsAll(array, lim) == array

\* limit >= array.length ? array : array.slice(0, limit)
limit(array, lim) == IF lim >= Len(array) THEN array ELSE SubSeq(array, 1, lim)

\* append calling factory(i) in place of factory(offset + i)
append_noOffset(offset, count, factory) ==
    IF count < 1 THEN << >>
    ELSE [i \in 1..count |-> factory[i - 1]]

\* count < 1 ? [] : Array(count).fill(undefined).map((_, i) => factory(offset + i))
\* (factory is the function from an index to the slot it makes)
append(offset, count, factory) ==
    IF count < 1 THEN << >>
    ELSE [i \in 1..count |-> factory[offset + i - 1]]

\* memoizeArray building every slot anew when the length changes
memoizeArray_rebuild(cache, array, setArray, live) ==
    LET n == Len(array.items)
        factory == [i \in 0..(n - 1) |->
            << createArrayElementSetState(setArray, i, NewId(live, "setElement", i, << >>)),
               createDeleteAction(setArray, i, NewId(live, "delete", i, << >>)) >>]
        slots == IF Len(cache.slots) # n THEN append(0, n, factory) ELSE cache.slots
    IN  [threw  |-> FALSE,
         cache  |-> ArrayCache(slots),
         result |-> ArrayResult(
            [i \in 1..n |->
                IF array.items[i] = Hole THEN Hole
                ELSE << array.items[i], slots[i][1], slots[i][2] >>])]

\* memoizeArray (the same in both files): [cache, result]
memoizeArray(cache, array, setArray, live) ==
    LET n == Len(array.items)
        m == Len(cache.slots)
        factory == [i \in 0..(n - 1) |->
            << createArrayElementSetState(setArray, i, NewId(live, "setElement", i, << >>)),
               createDeleteAction(setArray, i, NewId(live, "delete", i, << >>)) >>]
        slots == IF m # n
                 THEN limit(cache.slots, n) \o append(m, n - m, factory)
                 ELSE cache.slots
    IN  [threw  |-> FALSE,
         cache  |-> ArrayCache(slots),
         result |-> ArrayResult(
            [i \in 1..n |->
                IF array.items[i] = Hole THEN Hole
                ELSE << array.items[i], slots[i][1], slots[i][2] >>])]

\* map.set(key, val) / setMethods[name] = val
MapSet(map, key, val) ==
    [k \in (DOMAIN map) \cup {key} |-> IF k = key THEN val ELSE map[k]]

\* The for loop of memoizeObject, src/unnamed/part_000, from the i-th key:
\* acc = [map |-> newMap, methods |-> setMethods, threw]
RECURSIVE objectLoop(_, _, _, _, _, _)
objectLoop(oldMap, keys, i, acc, setState, live) ==
    IF i > Len(keys) \/ acc.threw THEN acc
    ELSE LET key == keys[i]
             val == IF key \in DOMAIN oldMap THEN oldMap[key]
                    ELSE createObjectPropertySetState(setState, key,
                            NewId(live, "setProperty", 0, key))
         IN  objectLoop(oldMap, keys, i + 1,
                IF capitalizeThrows(key)
                THEN [acc EXCEPT !.map = MapSet(acc.map, key, val), !.threw = TRUE]
                ELSE [map     |-> MapSet(acc.map, key, val),
                      methods |-> MapSet(acc.methods, AccessorName(key), val),
                      threw   |-> FALSE],
                setState, live)

\* memoizeObject writing the new entries into the old map
memoizeObject_keepStale(cache, state, setState, live) ==
    LET acc == objectLoop(cache.map, keysOf(state), 1,
                 [map |-> << >>, methods |-> << >>, threw |-> FALSE],
                 setState, live)
    IN  [threw  |-> acc.threw,
         cache  |-> IF acc.threw THEN cache
                    ELSE ObjectCache([k \in (DOMAIN cache.map) \cup (DOMAIN acc.map) |->
                            IF k \in DOMAIN acc.map THEN acc.map[k] ELSE cache.map[k]]),
         result |-> IF acc.threw THEN NoResult ELSE ObjectResult(acc.methods)]

\* memoizeObject of src/unnamed/part_000: ref.current = newMap is reached
\* only when no key throws
memoizeObject(cache, state, setState, live) ==
    LET acc == objectLoop(cache.map, keysOf(state), 1,
                 [map |-> << >>, methods |-> << >>, threw |-> FALSE],
                 setState, live)
    IN  [threw  |-> acc.threw,
         cache  |-> IF acc.threw THEN cache ELSE ObjectCache(acc.map),
         result |-> IF acc.threw THEN NoResult ELSE ObjectResult(acc.methods)]

\* The for loop of memoizeObject, src/use-destructuring.ts: the map of the
\* cache itself is written, before the accessor name is computed
RECURSIVE objectLoop_ud(_, _, _, _, _)
objectLoop_ud(keys, i, acc, setState, live) ==
    IF i > Len(keys) \/ acc.threw THEN acc
    ELSE LET key == keys[i]
             hit == key \in DOMAIN acc.map
             val == IF hit THEN acc.map[key]
                    ELSE createObjectPropertySetState(setState, key,
                            NewId(live, "setProperty", 0, key))
             map == IF hit THEN acc.map ELSE MapSet(acc.map, key, val)
         IN  objectLoop_ud(keys, i + 1,
                IF capitalizeThrows(key)
                THEN [acc EXCEPT !.map = map, !.threw = TRUE]
                ELSE [map     |-> map,
                      methods |-> MapSet(acc.methods, AccessorName(key), val),
                      threw   |-> FALSE],
                setState, live)

\* memoizeObject of src/use-destructuring.ts
memoizeObject_ud(cache, state, setState, live) ==
    LET acc == objectLoop_ud(keysOf(state), 1,
                 [map |-> cache.map, methods |-> << >>, threw |-> FALSE],
                 setState, live)
    IN  [threw  |-> acc.threw,
         cache  |-> ObjectCache(acc.map),
         result |-> IF acc.threw THEN NoResult ELSE ObjectResult(acc.methods)]

(***************************************************************************)
(* The hooks of one call site and the entry function.                      *)
(*   hooks: [mounted, ref, memo] with ref the useRef cell and              *)
(*          memo = [deps, value] the useMemo cell.                         *)
(***************************************************************************)
Unmounted ==
    [mounted |-> FALSE, ref |-> ArrayCache(<< >>),
     memo |-> [deps |-> << "", << "", 0 >> >>, value |-> NoResult]]

\* Deps with the fingerprint of Object.keys for sequences too (in the
\* model a sequence has no enumerable identifiers of its own)
Deps_fingerprintOnly(state, setState) ==
    << setState, << "num", hashStringsOf(keysOf(state)) >> >>

\* Deps with the record itself as the second dependency
Deps_byReference(state, setState) == << setState, << "ref", state.ref >> >>

\* [setState, isArr ? state : hashStrings(keysOf(state))]
Deps(state, setState) ==
    << setState,
       IF isArray(state) THEN << "ref", state.ref >>
       ELSE << "num", hashStringsOf(keysOf(state)) >> >>

\* The callback of useMemo: [threw, cache, result]
Reconcile(im, current, state, setState, live) ==
    IF isArray(state)
    THEN memoizeArray(narrowRef(current, TRUE, ArrayCache(<< >>)),
                      state, setState, live)
    ELSE IF im = "part_000"
    THEN memoizeObject(narrowRef(current, FALSE, ObjectCache(<< >>)),
                       state, setState, live)
    ELSE memoizeObject_ud(narrowRef(current, FALSE, ObjectCache(<< >>)),
                          state, setState, live)

\* useMemo's comparison of the dependencies with those of the last
\* completed render
GateSkips(hooks, state, setState) ==
    hooks.mounted /\ hooks.memo.deps = Deps(state, setState)

\* useDestucturing(state, setState) at a call site whose hooks are hooks:
\* [threw, ran, hooks, result]; ran tells whether the callback ran
useDestucturing(im, hooks, state, setState, live) ==
    IF ~isObjectOrArray(state)
    THEN [threw |-> TRUE, ran |-> FALSE, hooks |-> hooks, result |-> NoResult]
    ELSE
      LET current == IF hooks.mounted THEN hooks.ref
                     ELSE IF isArray(state) THEN ArrayCache(<< >>)
                     ELSE ObjectCache(<< >>)
      IN  IF GateSkips(hooks, state, setState)
          THEN [threw |-> FALSE, ran |-> FALSE, hooks |-> hooks,
                result |-> hooks.memo.value]
          ELSE
            LET r == Reconcile(im, current, state, setState, live)
            IN  IF r.threw
                THEN [threw |-> TRUE, ran |-> TRUE,
                      hooks |-> IF hooks.mounted
                                THEN [hooks EXCEPT !.ref = r.cache]
                                ELSE hooks,
                      result |-> NoResult]
                ELSE [threw |-> FALSE, ran |-> TRUE,
                      hooks |-> [mounted |-> TRUE, ref |-> r.cache,
                                 memo |-> [deps  |-> Deps(state, setState),
                                           value |-> r.result]],
                      result |-> r.result]



(***************************************************************************)
(* State.                                                                  *)
(*   impl    which file of the repository runs at the call site            *)
(*   hooks   the call site's useRef and useMemo cells                      *)
(*   call    the last call of useDestucturing: its arguments, its outcome, *)
(*           whether state was the very object of the preceding call       *)
(*           (same), and the shape of the preceding call (before)          *)
(*   watch   a closure that a completed derivation has dropped (its        *)
(*           position or key was absent from the composite), or NoFn       *)
(*   cur     the composite the host holds                                  *)
(*   queue   the updates handed to the whole-container setter and not yet  *)
(*           committed by the host                                         *)
(*   applied the transforms run by the host's last commit, each with the   *)
(*           composite it was given (old), the one it returned (new) and   *)
(*           whether it returned the very object it was given (same)       *)
(***************************************************************************)
VARIABLES impl, hooks, call, watch, cur, queue, applied

vars == << impl, hooks, call, watch, cur, queue, applied >>

NoFn == [fn |-> "none", id |-> 0, setter |-> "", index |-> 0, propertyKey |-> << >>]

\* what a call keeps of the call that preceded it: whether there was one,
\* whether it threw, and the shape of its arguments
Before(c) ==
    [made |-> c.made, threw |-> c.threw, kind |-> c.state.kind,
     size |-> Len(c.state.items), keys |-> KeySet(c.state),
     setState |-> c.setState]

NoCall ==
    [made |-> FALSE, state |-> Null, setState |-> "", threw |-> FALSE,
     ran |-> FALSE, result |-> NoResult, same |-> FALSE,
     before |-> [made |-> FALSE, threw |-> FALSE, kind |-> "null", size |-> 0,
                 keys |-> {}, setState |-> ""]]

\* the call returned
Returned(c) == c.made /\ ~c.threw

\* the closures of a result / of a cache
ResultFns(result) ==
    IF result.kind = "array"
    THEN UNION {IF result.triples[i] = Hole THEN {}
                ELSE {result.triples[i][2], result.triples[i][3]} :
                   i \in 1..Len(result.triples)}
    ELSE IF result.kind = "object"
    THEN {result.methods[n] : n \in DOMAIN result.methods}
    ELSE {}

CacheFns(cache) ==
    IF cache.kind = "array"
    THEN UNION {{cache.slots[i][1], cache.slots[i][2]} : i \in 1..Len(cache.slots)}
    ELSE {cache.map[k] : k \in DOMAIN cache.map}

QueueFns == {queue[i].f : i \in 1..Len(queue)}

\* the closures something still holds
Live ==
    CacheFns(hooks.ref) \cup ResultFns(hooks.memo.value)
    \cup ResultFns(call.result) \cup QueueFns \cup {watch}

\* identities of composites
RefIds == 1..(MaxQueue + 4)

LiveRefs == {cur.ref, call.state.ref, hooks.memo.deps[2][2]}

FreshRefs == SelectSeq([i \in RefIds |-> i], LAMBDA i : i \notin LiveRefs)

\* the composites of the input universe
Arrays == {Array(0, items) : items \in UNION {[1..n -> Elems] : n \in 0..MaxLen}}

Objects ==
    {Object(0, [i \in 1..Len(ks) |-> << ks[i], v >>]) : ks \in KeySeqs, v \in Elems}

Composites == Arrays \cup Objects

WithRef(c, r) == IF isObjectOrArray(c) THEN [c EXCEPT !.ref = r] ELSE c

\* does the composite have the position or key f is bound to
Has(state, f) ==
    IF f.fn = "setProperty" THEN state.kind = "object" /\ f.propertyKey \in KeySet(state)
    ELSE state.kind = "array" /\ f.index < Len(state.items)

\* the state the host starts from, and what callers pass to the derived
\* functions: a literal, or one of the functions of CallUpdater
HostSetter  == "S1"
HostStates  == {Array(1, << Str("a"), Str("b"), Str("c") >>),
                Object(1, << << KeyX, Str("a") >>, << KeyY, Str("b") >> >>)}
HostActions == {[fun |-> FALSE, value |-> Str("b")], [fun |-> TRUE, value |-> "toggle"]}
AllActions  == {[fun |-> FALSE, value |-> v] : v \in Elems}
               \cup {[fun |-> TRUE, value |-> n] : n \in {"keep", "toggle"}}
NoAction    == [fun |-> FALSE, value |-> Undefined]

\* identifiers that a record of the input universe does not have: "0", an
\* array index, and "toString", a member of Object.prototype
Key0        == << 48 >>
KeyToString == << 116, 111, 83, 116, 114, 105, 110, 103 >>

\* closures bound to every position up to MaxLen and to the keys "x", "0"
\* and "toString"
BoundFns ==
    {createArrayElementSetState(HostSetter, i, 1) : i \in 0..MaxLen}
    \cup {createDeleteAction(HostSetter, i, 1) : i \in 0..MaxLen}
    \cup {createObjectPropertySetState(HostSetter, k, 1) :
             k \in {KeyX, Key0, KeyToString}}

Init ==
    /\ impl \in Impls
    /\ hooks = Unmounted
    /\ call = NoCall
    /\ watch = NoFn
    /\ cur = Null
    /\ queue = << >>
    /\ applied = << >>

\* a === b for two values of state: a record or an array is itself only,
\* null is null and the number is the number
SameState(a, b) == a.kind = b.kind /\ a.ref = b.ref

\* One call useDestucturing(state, setState) at the call site
Call(state, setState) ==
    LET r == useDestucturing(impl, hooks, state, setState, Live)
    IN  /\ hooks' = r.hooks
        /\ call' = [made |-> TRUE, state |-> state, setState |-> setState,
                    threw |-> r.threw, ran |-> r.ran, result |-> r.result,
                    same |-> call.made /\ SameState(state, call.state),
                    before |-> Before(call)]

\* A derivation over any composite of the universe: the very object of the
\* last call, or another object
Derive ==
    /\ \E setState \in Setters :
         \E state \in {WithRef(c, FreshRefs[1]) : c \in Composites} \cup {call.state} :
            /\ isObjectOrArray(state)
            /\ Call(state, setState)
            /\ cur' = state
    /\ UNCHANGED << impl, watch, queue, applied >>

Next == Derive

Spec == Init /\ [][Next]_vars

(***************************************************************************)
(* The same call site, with one dropped closure kept under watch.          *)
(***************************************************************************)
\* the closures the last result returned whose position or key the
\* composite lacks
Lost(state) == {f \in ResultFns(call.result) : ~Has(state, f)}

DeriveWatch ==
    /\ \E setState \in Setters :
         \E state \in {WithRef(c, FreshRefs[1]) : c \in Composites} \cup {call.state} :
            /\ isObjectOrArray(state)
            /\ Call(state, setState)
            /\ cur' = state
            /\ watch' \in (IF watch = NoFn THEN Lost(state) \cup {NoFn} ELSE {watch})
    /\ UNCHANGED << impl, queue, applied >>

NextWatch == DeriveWatch

SpecWatch == Init /\ [][NextWatch]_vars

(***************************************************************************)
(* The host: a component that holds the composite in a state cell, renders *)
(* with useDestucturing(cur, setState), and whose setter queues updates    *)
(* that the next render applies in order.                                  *)
(***************************************************************************)
\* the host's own updater and the element it appends
AddUpdater ==
    [fn |-> "add", id |-> 0, setter |-> HostSetter,
     index |-> 0, propertyKey |-> << >>]

AddedElement == Str("+01234567")

\* a queued update: a transform of a derived function or of the host
Queued(f, action) ==
    [setter |-> f.setter, f |-> f, action |-> action, value |-> Null]

\* the record of one run of a transform
Applied(f, action, old, new) ==
    [f |-> f, action |-> action, old |-> WithRef(old, 0), new |-> WithRef(new, 0),
     same |-> new.ref = old.ref]

\* the host handing every queued transform the state the queue started from
RunQueue_stale(im, q, i, state, refs, trace) ==
    LET news == [j \in 1..Len(q) |-> Transform(im, q[j].f, q[j].action, state, refs[j])]
    IN  [state |-> IF q = << >> THEN state ELSE news[Len(q)],
         trace |-> [j \in 1..Len(q) |-> Applied(q[j].f, q[j].action, state, news[j])]]

\* the host runs the queue from its i-th update on state; refs are unused
\* identities for the copies: [state, trace]
RECURSIVE RunQueue(_, _, _, _, _, _)
RunQueue(im, q, i, state, refs, trace) ==
    IF i > Len(q) THEN [state |-> state, trace |-> trace]
    ELSE LET new == Transform(im, q[i].f, q[i].action, state, refs[i])
         IN  RunQueue(im, q, i + 1, new, refs,
                Append(trace, Applied(q[i].f, q[i].action, state, new)))

HostInit ==
    /\ impl \in Impls
    /\ hooks = Unmounted
    /\ call = NoCall
    /\ watch = NoFn
    /\ cur \in HostStates
    /\ queue = << >>
    /\ applied = << >>

\* The host commits the queued updates and renders
Render ==
    LET run == RunQueue(impl, queue, 1, cur, FreshRefs, << >>)
        new == IF run.state.ref = cur.ref THEN cur
               ELSE WithRef(run.state, FreshRefs[1])
    IN  /\ cur' = new
        /\ applied' = IF queue = << >> THEN applied ELSE run.trace
        /\ queue' = << >>
        /\ Call(new, HostSetter)
        /\ UNCHANGED << impl, watch >>

\* A consumer calls a mutator of the last render with an update
CallMutator ==
    /\ call.made /\ ~call.threw
    /\ Len(queue) < MaxQueue
    /\ \E f \in {g \in ResultFns(call.result) : g.fn # "delete"} :
         \E action \in HostActions :
            queue' = Append(queue, Queued(f, action))
    /\ applied' = << >>
    /\ UNCHANGED << impl, hooks, call, watch, cur >>

\* A consumer calls a remover of the last render
CallRemover ==
    /\ call.made /\ ~call.threw
    /\ Len(queue) < MaxQueue
    /\ \E f \in {g \in ResultFns(call.result) : g.fn = "delete"} :
         queue' = Append(queue, Queued(f, NoAction))
    /\ applied' = << >>
    /\ UNCHANGED << impl, hooks, call, watch, cur >>

\* A consumer presses Add: the host calls the whole-container setter itself
\* with an updater that appends an element.  Sequences stop growing at
\* MaxLen + 2 elements.
CallSetter ==
    /\ call.made /\ ~call.threw
    /\ isArray(cur)
    /\ Len(queue) < MaxQueue
    /\ Len(cur.items) + Cardinality({i \in 1..Len(queue) : queue[i].f = AddUpdater})
          < MaxLen + 2
    /\ queue' = Append(queue, Queued(AddUpdater, [fun |-> FALSE, value |-> AddedElement]))
    /\ applied' = << >>
    /\ UNCHANGED << impl, hooks, call, watch, cur >>

HostNext == Render \/ CallMutator \/ CallRemover \/ CallSetter

SpecHost == HostInit /\ [][HostNext]_vars

(***************************************************************************)
(* The transforms alone: a closure bound to any position or key is applied *)
(* to the current composite, a record or an array whatever the closure was *)
(* made for, as the host does with a queued update.  After a transform     *)
(* that throws the host holds what it held.                                *)
(***************************************************************************)
ApplyInit ==
    /\ impl \in Impls
    /\ hooks = Unmounted
    /\ call = NoCall
    /\ watch = NoFn
    /\ cur \in {WithRef(c, 1) : c \in Composites}
    /\ queue = << >>
    /\ applied = << >>

Apply ==
    /\ \E f \in BoundFns :
         \E action \in (IF f.fn = "delete" THEN {NoAction} ELSE AllActions) :
            LET new == Transform(impl, f, action, cur, FreshRefs[1])
            IN  /\ cur' = IF new = TypeError THEN cur ELSE new
                /\ applied' = << Applied(f, action, cur, new) >>
    /\ UNCHANGED << impl, hooks, call, watch, queue >>

ApplyNext == Apply

SpecApply == ApplyInit /\ [][ApplyNext]_vars

(***************************************************************************)
(* The call site given anything: null, a number, sequences, and records    *)
(* whose identifiers are among "x" and the empty string.  A call that      *)
(* throws leaves the useMemo cell as it was and the useRef cell as the     *)
(* callback left it, so the sequence of the last call that returned can be *)
(* passed again and is then not reconciled.                                *)
(***************************************************************************)
AnyInputs ==
    {Null, Number}
    \cup {Array(0, [i \in 1..n |-> Str("a")]) : n \in 0..MaxLen}
    \cup {Object(0, [i \in 1..Len(ks) |-> << ks[i], Str("a") >>]) : ks \in ErrKeySeqs}

\* the sequence of the last call that returned, which the useMemo cell
\* still holds as a dependency after calls that threw
MemoState ==
    IF hooks.mounted /\ hooks.memo.deps[2][1] = "ref"
    THEN {Array(hooks.memo.deps[2][2],
                [i \in 1..Len(hooks.memo.value.triples) |->
                    hooks.memo.value.triples[i][1]])}
    ELSE {}

DeriveAny ==
    /\ \E setState \in Setters :
         \E state \in {WithRef(c, FreshRefs[1]) : c \in AnyInputs}
                         \cup {call.state} \cup MemoState :
            /\ Call(state, setState)
            /\ cur' = state
    /\ UNCHANGED << impl, watch, queue, applied >>

AnyNext == DeriveAny

SpecAny == Init /\ [][AnyNext]_vars

(***************************************************************************)
(* The call site of Spec over composites of one value, with watch a        *)
(* closure of the result that preceded a change of kind.                   *)
(***************************************************************************)
\* the call about to be made changes the kind of the composite
KindSwitch(state) == Returned(call) /\ state.kind # call.state.kind

\* sequences and records holding "a" everywhere
Uniform ==
    {c \in Composites :
        /\ \A i \in 1..Len(c.items) : c.items[i] = Str("a")
        /\ \A i \in 1..Len(c.props) : c.props[i][2] = Str("a")}

DeriveSwitch ==
    /\ \E setState \in Setters :
         \E state \in {WithRef(c, FreshRefs[1]) : c \in Uniform} \cup {call.state} :
            /\ isObjectOrArray(state)
            /\ Call(state, setState)
            /\ cur' = state
            /\ watch' \in (IF watch = NoFn /\ KindSwitch(state)
                           THEN ResultFns(call.result) \cup {NoFn}
                           ELSE {watch})
    /\ UNCHANGED << impl, queue, applied >>

SwitchNext == DeriveSwitch

SpecSwitch == Init /\ [][SwitchNext]_vars

(***************************************************************************)
(* The call site given records only, with the setter of the host: every    *)
(* enumeration of identifiers among "a", "b", "c", or among "x", "X" and    *)
(* sharp s.                                                                *)
(***************************************************************************)
Records ==
    {Object(0, [i \in 1..Len(ks) |-> << ks[i], Str("a") >>]) :
        ks \in HashKeySeqs \cup CaseKeySeqs}

\* cur keeps the record of the call before, whose enumeration the call
\* itself does not keep
DeriveRecord ==
    /\ \E setState \in {HostSetter} :
         \E state \in {WithRef(c, FreshRefs[1]) : c \in Records} \cup {call.state} :
            /\ isObjectOrArray(state)
            /\ Call(state, setState)
            /\ cur' = call.state
    /\ UNCHANGED << impl, watch, queue, applied >>

RecordNext == DeriveRecord

SpecRecords == Init /\ [][RecordNext]_vars


(***************************************************************************)
(* Properties.                                                             *)
(***************************************************************************)
\* the mutator and the remover of the i-th triple (i from 1)
SlotFns(result, i) == << result.triples[i][2], result.triples[i][3] >>

\* C1 (gate skip): when a call gets the setter of the preceding call, which
\* returned, and the very same sequence, or a record with the same key set,
\* the callback of useMemo does not run, the hooks are left as they were and
\* the result is the preceding result, closures included.
C1_GateSkip ==
    [][(/\ Returned(call)
        /\ call'.setState = call.setState
        /\ \/ /\ isArray(call.state) /\ isArray(call'.state)
              /\ call'.state.ref = call.state.ref
           \/ /\ call.state.kind = "object" /\ call'.state.kind = "object"
              /\ KeySet(call'.state) = KeySet(call.state))
       => (/\ Returned(call')
           /\ ~call'.ran
           /\ hooks' = hooks
           /\ call'.result = call.result)]_vars

\* a record that is another object than the one of the preceding call, with
\* the same keys and setter, went through the gate without reconciliation
C1_Witness ==
    /\ Returned(call) /\ ~call.ran /\ ~call.same
    /\ call.state.kind = "object"
    /\ call.before.made /\ ~call.before.threw /\ call.before.kind = "object"
    /\ call.before.keys = KeySet(call.state)
    /\ Cardinality(KeySet(call.state)) = 2

\* C2 (latest setter): every closure of the result of a call that returned
\* delegates to the setter passed to that call.
C2_LatestSetter ==
    Returned(call) => \A f \in ResultFns(call.result) : f.setter = call.setState

\* two consecutive sequence derivations with the same setter
SeqStep ==
    /\ Returned(call) /\ isArray(call.state)
    /\ call'.made /\ isArray(call'.state)
    /\ call'.setState = call.setState

\* C3 (sequence growth): from length m to n > m with the same setter, the
\* closures of the positions below m are those of the preceding result, and
\* each position from m on gets a mutator and a remover that nothing held
\* before the call, bound to that position and to the setter of the call:
\* n - m new pairs in all.
C3_SequenceGrowth ==
    [][(SeqStep /\ Len(call.state.items) < Len(call'.state.items))
       => LET m == Len(call.state.items)
              n == Len(call'.state.items)
          IN  /\ Returned(call')
              /\ Len(call'.result.triples) = n
              /\ \A i \in 1..m : SlotFns(call'.result, i) = SlotFns(call.result, i)
              /\ \A i \in (m + 1)..n :
                    /\ call'.result.triples[i][2] \notin Live
                    /\ call'.result.triples[i][3] \notin Live
                    /\ call'.result.triples[i][2].fn = "setElement"
                    /\ call'.result.triples[i][3].fn = "delete"
                    /\ call'.result.triples[i][2].index = i - 1
                    /\ call'.result.triples[i][3].index = i - 1
                    /\ call'.result.triples[i][2].setter = call'.setState
                    /\ call'.result.triples[i][3].setter = call'.setState
              /\ Cardinality(ResultFns(call'.result) \ Live) = 2 * (n - m)]_vars

\* a sequence grew from a non-empty one under the same setter
C3_Witness ==
    /\ Returned(call) /\ isArray(call.state) /\ call.ran
    /\ call.before.made /\ ~call.before.threw /\ call.before.kind = "array"
    /\ call.before.setState = call.setState
    /\ call.before.size >= 1
    /\ call.before.size < Len(call.state.items)

\* C4 (sequence shrink): from length m to n < m with the same setter, the
\* closures of the positions below n are those of the preceding result, the
\* cache keeps n slots and none of the closures of the positions n..m-1, and
\* the result has n triples.
C4_SequenceShrink ==
    [][(SeqStep /\ Len(call'.state.items) < Len(call.state.items))
       => LET m == Len(call.state.items)
              n == Len(call'.state.items)
          IN  /\ Returned(call')
              /\ Len(call'.result.triples) = n
              /\ \A i \in 1..n : SlotFns(call'.result, i) = SlotFns(call.result, i)
              /\ hooks'.ref.kind = "array"
              /\ Len(hooks'.ref.slots) = n
              /\ \A i \in (n + 1)..m :
                    /\ call.result.triples[i][2] \notin CacheFns(hooks'.ref)
                    /\ call.result.triples[i][3] \notin CacheFns(hooks'.ref)]_vars

\* a sequence shrank to a non-empty one under the same setter
C4_Witness ==
    /\ Returned(call) /\ isArray(call.state) /\ call.ran
    /\ call.before.made /\ ~call.before.threw /\ call.before.kind = "array"
    /\ call.before.setState = call.setState
    /\ Len(call.state.items) >= 1
    /\ call.before.size > Len(call.state.items)

\* Scenario A: the host holds a rendered 3-element sequence without empty
\* slots, the only queued update is the remover of index 1 of that render,
\* and the host renders
ScenarioA ==
    /\ Returned(call) /\ isArray(call.state) /\ cur = call.state
    /\ Len(call.state.items) = 3 /\ Len(call.result.triples) = 3
    /\ \A i \in 1..3 : call.state.items[i] # Hole
    /\ Len(queue) = 1
    /\ queue[1].f = call.result.triples[2][3]
    /\ call'.made /\ queue' = << >>

\* C5 as stated: after Scenario A the closures of position 0 are those of
\* the render before and those of position 1 are not.
C5_ScenarioA_Stated ==
    [][ScenarioA
       => /\ Returned(call')
          /\ SlotFns(call'.result, 1) = SlotFns(call.result, 1)
          /\ call'.result.triples[2][2] # call.result.triples[2][2]
          /\ call'.result.triples[2][3] # call.result.triples[2][3]]_vars

\* C5 (amended): after Scenario A the sequence is the old one without its
\* element of index 1, the result has two triples, the closures of positions
\* 0 and 1 are both those of the render before (position 1 now carries the
\* former third element), and only the slot of position 2 has left the cache.
C5_ScenarioA ==
    [][ScenarioA
       => /\ Returned(call')
          /\ call'.state.items = << call.state.items[1], call.state.items[3] >>
          /\ Len(call'.result.triples) = 2
          /\ SlotFns(call'.result, 1) = SlotFns(call.result, 1)
          /\ SlotFns(call'.result, 2) = SlotFns(call.result, 2)
          /\ call'.result.triples[2][1] = call.state.items[3]
          /\ Len(hooks'.ref.slots) = 2
          /\ call.result.triples[3][2] \notin CacheFns(hooks'.ref)
          /\ call.result.triples[3][3] \notin CacheFns(hooks'.ref)]_vars

\* the host has rendered ["a","c"] after the remover of index 1 ran on
\* ["a","b","c"]
C5_Witness ==
    /\ Returned(call) /\ call.ran
    /\ Len(applied) = 1
    /\ applied[1].f.fn = "delete" /\ applied[1].f.index = 1
    /\ applied[1].old.items = << Str("a"), Str("b"), Str("c") >>
    /\ call.state.items = << Str("a"), Str("c") >>
    /\ call.before.kind = "array" /\ call.before.size = 3

\* two consecutive record derivations with the same setter
RecStep ==
    /\ Returned(call) /\ call.state.kind = "object"
    /\ Returned(call') /\ call'.state.kind = "object"
    /\ call'.setState = call.setState

\* C6 (record addition): when the key set grows strictly under the same
\* setter, the mutator of every key of both records is that of the preceding
\* result, and every added key gets a mutator that nothing held before the
\* call: one new mutator per added key.
C6_RecordAddition ==
    [][(/\ RecStep
        /\ KeySet(call.state) \subseteq KeySet(call'.state)
        /\ KeySet(call.state) # KeySet(call'.state))
       => /\ \A k \in KeySet(call.state) :
                call'.result.methods[AccessorName(k)] = call.result.methods[AccessorName(k)]
          /\ \A k \in KeySet(call'.state) \ KeySet(call.state) :
                call'.result.methods[AccessorName(k)] \notin Live
          /\ Cardinality(ResultFns(call'.result) \ Live)
                = Cardinality(KeySet(call'.state) \ KeySet(call.state))]_vars

\* C7 (record eviction, src/unnamed/part_000): after a record derivation
\* that returned, the keys of the cache are exactly the keys of the record;
\* and the mutator of a key of both this record and the preceding one is,
\* under the same setter, that of the preceding result.
C7_RecordEviction ==
    [][(impl = "part_000" /\ Returned(call') /\ call'.state.kind = "object")
       => /\ hooks'.ref.kind = "map"
          /\ DOMAIN hooks'.ref.map = KeySet(call'.state)
          /\ RecStep =>
                \A k \in KeySet(call.state) \cap KeySet(call'.state) :
                   call'.result.methods[AccessorName(k)]
                      = call.result.methods[AccessorName(k)]]_vars

\* src/unnamed/part_000 has reconciled a record that lost a key and kept one
C7_Witness ==
    /\ impl = "part_000"
    /\ Returned(call) /\ call.ran /\ call.state.kind = "object"
    /\ call.before.made /\ ~call.before.threw /\ call.before.kind = "object"
    /\ call.before.setState = call.setState
    /\ KeySet(call.state) # {}
    /\ KeySet(call.state) \subseteq call.before.keys
    /\ KeySet(call.state) # call.before.keys

\* C8 (no resurrection): a closure whose position or key was absent from the
\* composite of a derivation that returned is in no later result.
C8_NoResurrection ==
    watch # NoFn => watch \notin ResultFns(call.result)

\* what the run of an element or field mutator read and resolved
CurrentOf(e) ==
    IF e.f.fn = "setElement" THEN GetItem(e.old, e.f.index)
    ELSE GetProp(e.old, e.f.propertyKey)

ResolvedOf(e) == evaluateSetStateAction(e.action, CurrentOf(e))

IsMutator(e) == e.f.fn \in {"setElement", "setProperty"}

\* the run of an element mutator on a sequence or of a field mutator on a
\* record
OnItsKind(e) ==
    /\ IsMutator(e)
    /\ e.old.kind = (IF e.f.fn = "setProperty" THEN "object" ELSE "array")

\* C9 (mutator short-circuit): a mutator whose resolved update equals the
\* current element or field returns the very composite it was given.
C9_ShortCircuit ==
    \A i \in 1..Len(applied) :
       (OnItsKind(applied[i]) /\ ResolvedOf(applied[i]) = CurrentOf(applied[i]))
          => applied[i].same

\* a mutator ran with an update equal to the current element or field
C9_Witness ==
    \E i \in 1..Len(applied) :
       OnItsKind(applied[i]) /\ ResolvedOf(applied[i]) = CurrentOf(applied[i])

\* C10 (mutator frame): the composite a mutator returns has the length, or
\* the key set, of the composite it was given and the same value at every
\* other position or key.
C10_MutatorFrame ==
    \A i \in 1..Len(applied) :
       LET e == applied[i]
       IN  /\ (OnItsKind(e) /\ e.f.fn = "setElement") =>
                /\ Len(e.new.items) = Len(e.old.items)
                /\ \A j \in 0..(Len(e.old.items) - 1) :
                      j # e.f.index => GetItem(e.new, j) = GetItem(e.old, j)
           /\ (OnItsKind(e) /\ e.f.fn = "setProperty") =>
                /\ KeySet(e.new) = KeySet(e.old)
                /\ \A k \in KeySet(e.old) :
                      k # e.f.propertyKey => GetProp(e.new, k) = GetProp(e.old, k)

\* a mutator ran on a sequence too short for its position, or on a record
\* without its key
C10_Witness ==
    \E i \in 1..Len(applied) :
       /\ OnItsKind(applied[i])
       /\ \/ /\ applied[i].f.fn = "setElement"
             /\ applied[i].f.index >= Len(applied[i].old.items)
          \/ /\ applied[i].f.fn = "setProperty"
             /\ applied[i].f.propertyKey \notin KeySet(applied[i].old)

\* C11 (remover correctness): the sequence a remover returns is a new
\* sequence, one element shorter than the one it was given, without the
\* element of the bound position and with the others in their order.
C11_RemoverCorrect ==
    \A i \in 1..Len(applied) :
       applied[i].f.fn = "delete" =>
          LET e == applied[i]
              k == e.f.index
          IN  /\ ~e.same
              /\ Len(e.new.items) = Len(e.old.items) - 1
              /\ \A j \in 0..(Len(e.new.items) - 1) :
                    GetItem(e.new, j) = GetItem(e.old, IF j < k THEN j ELSE j + 1)

\* a remover ran on a sequence that an earlier queued removal had made too
\* short for its position
C11_Witness ==
    /\ Len(applied) = 2
    /\ applied[1].f.fn = "delete" /\ applied[2].f.fn = "delete"
    /\ Len(applied[1].new.items) < Len(applied[1].old.items)
    /\ applied[2].f.index >= Len(applied[2].old.items)

\* the value at the position or key a mutator is bound to
AtBound(f, state) ==
    IF f.fn = "setElement" THEN GetItem(state, f.index) ELSE GetProp(state, f.propertyKey)

\* C12 (queued composition): when the host commits a queue of updates, the
\* transforms run in the order of the calls, the first on the composite the
\* host held and each next one on what the one before returned, and the
\* host holds what the last returned; after a mutator's transform the bound
\* position or key has the update resolved against the value that
\* transform was given, and a field mutator hands on, as it got it, the
\* field that an earlier queued mutator of another key wrote.
C12_QueuedComposition ==
    [][(queue # << >> /\ queue' = << >>)
       => LET n == Len(queue)
          IN  /\ Len(applied') = n
              /\ applied'[1].old = WithRef(cur, 0)
              /\ \A i \in 2..n : applied'[i].old = applied'[i - 1].new
              /\ WithRef(cur', 0) = applied'[n].new
              /\ call'.state = cur'
              /\ \A i \in 1..n :
                    /\ applied'[i].f = queue[i].f
                    /\ applied'[i].action = queue[i].action
                    /\ IsMutator(applied'[i]) =>
                          AtBound(queue[i].f, applied'[i].new)
                             = evaluateSetStateAction(queue[i].action,
                                  AtBound(queue[i].f, applied'[i].old))
              /\ \A i \in 1..n : \A j \in (i + 1)..n :
                    (/\ queue[i].f.fn = "setProperty" /\ queue[j].f.fn = "setProperty"
                     /\ queue[i].f.propertyKey # queue[j].f.propertyKey)
                    => GetProp(applied'[j].new, queue[i].f.propertyKey)
                          = GetProp(applied'[j].old, queue[i].f.propertyKey)]_vars

\* the host has committed a literal update of a slot followed by a
\* functional update of the same slot, which saw the literal
C12_Witness ==
    /\ Returned(call) /\ Len(applied) = 2
    /\ IsMutator(applied[1]) /\ applied[2].f = applied[1].f
    /\ ~applied[1].action.fun /\ applied[1].action.value = Str("b")
    /\ applied[2].action.fun /\ applied[2].action.value = "toggle"
    /\ AtBound(applied[1].f, applied[1].old) = Str("a")
    /\ AtBound(applied[1].f, applied[1].new) = Str("b")
    /\ AtBound(applied[2].f, applied[2].new) = Str("a")
    /\ AtBound(applied[2].f, call.state) = Str("a")

\* C13 (usage errors): a call throws exactly when the composite is null or
\* a number, or is a record with the empty string among its identifiers;
\* every sequence and every other record is derived without an error.
C13_UsageErrors ==
    call.made =>
       (call.threw <=>
          \/ call.state.kind \in {"null", "number"}
          \/ call.state.kind = "object" /\ KeyEmpty \in KeySet(call.state))

\* at a call site that has rendered, a record whose second identifier is
\* the empty string made the call throw
C13_Witness ==
    /\ call.made /\ call.threw /\ call.ran
    /\ hooks.mounted
    /\ keysOf(call.state) = << KeyX, KeyEmpty >>
    /\ call.before.made /\ ~call.before.threw

\* C14 (kind switch reset): when a call that returned is followed by a call
\* over a composite of the other kind, the callback of useMemo runs, the
\* cache is of the new kind and it and the result hold only closures that
\* nothing held before the call; and a closure returned before a change of
\* kind is in no later result and not in the cache.
C14_KindSwitchReset ==
    [][/\ (Returned(call) /\ call'.made /\ call'.state.kind # call.state.kind)
          => /\ Returned(call') /\ call'.ran
             /\ hooks'.ref.kind = (IF isArray(call'.state) THEN "array" ELSE "map")
             /\ CacheFns(hooks'.ref) = ResultFns(call'.result)
             /\ ResultFns(call'.result) \cap Live = {}
       /\ watch' # NoFn
          => /\ watch' \notin ResultFns(call'.result)
             /\ watch' \notin CacheFns(hooks'.ref)]_vars

\* after a switch away from it, the site is back at the kind of the watched
\* closure, with its position or key present and the same setter
C14_Witness ==
    /\ watch # NoFn /\ Returned(call) /\ call.ran
    /\ Has(call.state, watch)
    /\ call.setState = watch.setter
    /\ call.before.made /\ ~call.before.threw
    /\ call.before.kind # call.state.kind

\* C15 (record output mapping): the result of a record derivation has, for
\* every identifier k of the record, the accessor "set" followed by k with
\* its first character in upper case, holding the mutator bound to k, and
\* as many accessors as the record has identifiers.
C15_RecordOutputMapping ==
    (Returned(call) /\ call.state.kind = "object")
       => /\ \A k \in KeySet(call.state) :
                /\ AccessorName(k) \in DOMAIN call.result.methods
                /\ call.result.methods[AccessorName(k)].fn = "setProperty"
                /\ call.result.methods[AccessorName(k)].propertyKey = k
          /\ Cardinality(DOMAIN call.result.methods) = Cardinality(KeySet(call.state))

\* a record with the identifiers "x" and "X" has been reconciled
C15_Witness ==
    /\ Returned(call) /\ call.ran
    /\ KeySet(call.state) = {KeyX, KeyUpperX}

\* two consecutive record derivations that returned
RecordPair ==
    /\ Returned(call) /\ call.state.kind = "object"
    /\ Returned(call') /\ call'.state.kind = "object"

\* C16 (fingerprint commutativity): two records with the same set of
\* identifiers have the same fingerprint whatever the order of their
\* enumerations, so with the same setter the second derivation does not
\* reconcile.
C16_FingerprintCommutes ==
    [][(RecordPair /\ KeySet(call'.state) = KeySet(call.state))
       => /\ hashStrings(keysOf(call'.state)) = hashStrings(keysOf(call.state))
          /\ hooks.memo.deps[2] = << "num", hashStrings(keysOf(call.state)) >>
          /\ hooks'.memo.deps[2] = hooks.memo.deps[2]
          /\ call'.setState = call.setState
                => ~call'.ran /\ call'.result = call.result]_vars

\* a record enumerating "c", "a", "b" went through the gate without
\* reconciliation after a record enumerating "a", "b", "c"
C16_Witness ==
    /\ Returned(call) /\ ~call.ran /\ ~call.same
    /\ keysOf(call.state) = << KeyC, KeyA, KeyB >>
    /\ cur.kind = "object" /\ keysOf(cur) = << KeyA, KeyB, KeyC >>

\* C17 (fingerprint sensitivity): the fingerprint of "a", "b" is
\* 1084074942 and that of "a", "c" is -2118890313, so a derivation over a
\* record with the identifiers "a", "c" after one over "a", "b" reconciles.
C17_FingerprintSensitive ==
    [][(/\ Returned(call) /\ keysOf(call.state) = << KeyA, KeyB >>
        /\ call'.made /\ keysOf(call'.state) = << KeyA, KeyC >>)
       => /\ hooks.memo.deps[2] = << "num", 1084074942 >>
          /\ hooks'.memo.deps[2] = << "num", -2118890313 >>
          /\ hashStrings(<< KeyA, KeyB >>) # hashStrings(<< KeyA, KeyC >>)
          /\ Returned(call') /\ call'.ran]_vars

\* the record {a, c} was reconciled after the record {a, b}, with the same
\* setter
C17_Witness ==
    /\ Returned(call) /\ call.ran
    /\ keysOf(call.state) = << KeyA, KeyC >>
    /\ cur.kind = "object" /\ keysOf(cur) = << KeyA, KeyB >>
    /\ call.before.made /\ ~call.before.threw
    /\ call.before.setState = call.setState

\* C18 (slot alignment): after a sequence derivation that returned, the
\* cache has one slot per element, the result one triple per element, and
\* the i-th triple holds the i-th element with the mutator and the remover
\* of the i-th slot, both bound to the index of that element.
C18_SlotAlignment ==
    (Returned(call) /\ isArray(call.state))
       => LET n == Len(call.state.items)
          IN  /\ hooks.ref.kind = "array"
              /\ Len(hooks.ref.slots) = n
              /\ Len(call.result.triples) = n
              /\ \A i \in 1..n :
                    /\ call.result.triples[i][1] = call.state.items[i]
                    /\ SlotFns(call.result, i) = hooks.ref.slots[i]
                    /\ call.result.triples[i][2].fn = "setElement"
                    /\ call.result.triples[i][3].fn = "delete"
                    /\ call.result.triples[i][2].index = i - 1
                    /\ call.result.triples[i][3].index = i - 1

\* a sequence has grown from a non-empty one under another setter
C18_Witness ==
    /\ Returned(call) /\ isArray(call.state) /\ call.ran
    /\ call.before.made /\ ~call.before.threw /\ call.before.kind = "array"
    /\ call.before.size >= 1
    /\ call.before.size < Len(call.state.items)
    /\ call.before.setState # call.setState

\* C19 (error leaves cache unchanged): a call that throws leaves the cache
\* of the call site as it was before the call.
C19_ErrorKeepsCache ==
    [][(call'.made /\ call'.threw) => hooks'.ref = hooks.ref]_vars

\* at a call site that has rendered, the callback of useMemo threw
C19_Witness ==
    /\ call.made /\ call.threw /\ call.ran
    /\ hooks.mounted
    /\ call.before.made /\ ~call.before.threw

====
